---- MODULE Spec2Model ----
(***************************************************************************)
(* Model of the gamesearch-data lambda (lambdas/gamesearch-data/main.go):  *)
(* the concurrent paginated extraction engine.                             *)
(*                                                                         *)
(*   Fetcher.fetchAll     the offset queue, the N workers, the closer      *)
(*                        goroutine and the collector loop                 *)
(*   Fetcher.fetchQuery   one page request against the page API            *)
(*   rate.Limiter         the shared token bucket (rate 4/s, burst 1)      *)
(*   retrieveAuthToken    the auth exchange                                *)
(*   fetchAndStoreData    the run: credentials, auth, three fetchAll calls *)
(*                        (genres, games, franchises), three uploads       *)
(*                                                                         *)
(* Each goroutine is a process with a program counter; one action is one   *)
(* step of one goroutine between two synchronisation points.  Time is      *)
(* counted in ticks of one limiter refill interval (1/LimiterRate second). *)
(***************************************************************************)
EXTENDS Integers, Sequences, FiniteSets, TLC

\* ---------------------------------------------------------------- constants
OffsetChanCap == 5         \* offsetChan := make(chan int, 5)
LimiterRate == 4           \* rate.NewLimiter(4, 1): tokens per second
LimiterBurst == 1          \* rate.NewLimiter(4, 1): bucket capacity
RunWorkers == 3            \* numWorkers := 3 in fetchAndStoreData

\* ------------------------------------------------------------------- bounds
MaxWorkers == 2            \* fetchAll is explored for numWorkers in 1..MaxWorkers
MaxPageLimit == 2          \* and pageLimit in 1..MaxPageLimit
MaxRequests == 4           \* page requests of an error-free fetchAll call
MaxGapWorkers == 3         \* worker counts of the gap scenario
RunPageLimit == 1          \* pageLimit of the run (500 in the source), scaled
MaxRunRecords == 1         \* records per kind held by the API in a whole run

Min(a, b) == IF a < b THEN a ELSE b
Max(a, b) == IF a > b THEN a ELSE b

\* The entity kinds, in the order fetchAndStoreData fetches them.
KindOrder == <<"genres", "games", "franchises">>
Kinds == {KindOrder[i] : i \in 1..Len(KindOrder)}

\* The artifact of each kind (fileMap).
FileOf(kind) == CASE kind = "genres" -> "genres.json"
                  [] kind = "games" -> "games.json"
                  [] kind = "franchises" -> "franchises.json"
Files == {FileOf(k) : k \in Kinds}

NoOffset == -1

VARIABLES
    \* the environment: what the run is given
    env,            \* CLIENT_ID, CLIENT_SECRET, S3_BUCKET
    authReply,      \* how the token endpoint answers
    dataLen,        \* page API: number of records held, per kind
    failing,        \* page API: the offsets whose request fails, per kind
    ctxDone,        \* the run-scoped context is cancelled
    \* the limiter and the clock
    tokens,         \* tokens in the bucket
    starts,         \* request starts in each of the last LimiterRate ticks
    \* fetchAndStoreData
    mainPc,         \* position in fetchAndStoreData
    accessToken,    \* authResp.AccessToken
    authCalls,      \* number of retrieveAuthToken calls made
    runErr,         \* what fetchAndStoreData returned
    kindIdx,        \* which of KindOrder is being fetched
    collections,    \* genres, games, franchises: what fetchAll returned
    pending,        \* the entries of fileMap not yet iterated
    upAttempts,     \* file -> number of uploadToS3 calls
    uploaded,       \* file -> the data put in the bucket
    \* one fetchAll call
    url,            \* the Fetcher's kind
    numWorkers, pageLimit,
    fpc,            \* the calling goroutine's position in fetchAll
    fi,             \* the index i of its current loop
    offsetChan, offsetClosed, resultClosed,
    wg,             \* the WaitGroup counter
    wpc, woff, wres,\* each worker: position, offset held, page held
    results,
    cpc,            \* the closer goroutine's position
    panicked,       \* a send on a closed channel happened
    attempts        \* <<kind, offset>> -> number of fetchQuery calls made with it

envVars == <<env, authReply, dataLen, failing>>
limVars == <<tokens, starts>>
runVars == <<mainPc, accessToken, authCalls, runErr, kindIdx, collections,
             pending, upAttempts, uploaded>>
chanVars == <<offsetChan, offsetClosed, resultClosed>>
workerVars == <<wpc, woff, wres>>
callVars == <<url, numWorkers, pageLimit>>
fetchVars == <<callVars, fpc, fi, chanVars, wg, workerVars, results, cpc,
               panicked, attempts>>
vars == <<envVars, ctxDone, limVars, runVars, fetchVars>>

Workers == 0..(numWorkers - 1)

\* ------------------------------------------------------------- the page API
\* A record is identified by its kind and its position in the API's data.
Page(kind, offset, limit) ==
    LET n == Max(0, Min(limit, dataLen[kind] - offset))
    IN  [j \in 1..n |-> <<kind, offset + j - 1>>]

\* fetchQuery: one request "limit <limit>; offset <offset>;".  A status other
\* than 200 (a failing offset, or a bearer token the API does not know) or an
\* undecodable body is an error.
fetchQuery(kind, offset, limit) ==
    IF accessToken = "" \/ offset \in failing[kind]
    THEN [err |-> TRUE, res |-> <<>>]
    ELSE [err |-> FALSE, res |-> Page(kind, offset, limit)]

\* The ways the API is made to fail: nowhere, or at one offset that a run
\* against k records with page limit l requests.
FailChoices(k, l) == {{}} \cup {{j * l} : j \in 0..(k \div l)}

\* ---------------------------------------------------------------- fetchAll
\* FetchFrame with the result slice kept from the previous call.
FetchFrameSharedResults(kind, n, l) ==
    /\ url' = kind
    /\ numWorkers' = n
    /\ pageLimit' = l
    /\ fpc' = "seed"
    /\ fi' = 0
    /\ offsetChan' = <<>>
    /\ offsetClosed' = FALSE
    /\ resultClosed' = FALSE
    /\ wg' = 0
    /\ wpc' = [w \in 0..(n - 1) |-> "unborn"]
    /\ woff' = [w \in 0..(n - 1) |-> NoOffset]
    /\ wres' = [w \in 0..(n - 1) |-> <<>>]
    /\ results' = results
    /\ cpc' = "unborn"

\* The state fetchAll starts from: fresh channels, WaitGroup and result slice.
FetchFrame(kind, n, l) ==
    /\ url' = kind
    /\ numWorkers' = n
    /\ pageLimit' = l
    /\ fpc' = "seed"
    /\ fi' = 0
    /\ offsetChan' = <<>>
    /\ offsetClosed' = FALSE
    /\ resultClosed' = FALSE
    /\ wg' = 0
    /\ wpc' = [w \in 0..(n - 1) |-> "unborn"]
    /\ woff' = [w \in 0..(n - 1) |-> NoOffset]
    /\ wres' = [w \in 0..(n - 1) |-> <<>>]
    /\ results' = <<>>
    /\ cpc' = "unborn"

\* Seed with the loop bound off by one (i <= numWorkers).
SeedOffByOne ==
    /\ ~panicked
    /\ fpc = "seed"
    /\ Len(offsetChan) < OffsetChanCap
    /\ offsetChan' = Append(offsetChan, pageLimit * fi)
    /\ fi' = IF fi = numWorkers THEN 0 ELSE fi + 1
    /\ fpc' = IF fi = numWorkers THEN "spawn" ELSE "seed"
    /\ UNCHANGED <<envVars, ctxDone, limVars, runVars, callVars, offsetClosed,
                   resultClosed, wg, workerVars, results, cpc, panicked, attempts>>

\* for i := range numWorkers { offsetChan <- pageLimit * i }
\* The send blocks while the buffer is full; no worker is running yet.
Seed ==
    /\ ~panicked
    /\ fpc = "seed"
    /\ Len(offsetChan) < OffsetChanCap
    /\ offsetChan' = Append(offsetChan, pageLimit * fi)
    /\ fi' = IF fi + 1 = numWorkers THEN 0 ELSE fi + 1
    /\ fpc' = IF fi + 1 = numWorkers THEN "spawn" ELSE "seed"
    /\ UNCHANGED <<envVars, ctxDone, limVars, runVars, callVars, offsetClosed,
                   resultClosed, wg, workerVars, results, cpc, panicked, attempts>>

\* for i := range numWorkers { wg.Add(1); go func(i int) {...}(i) }
Spawn ==
    /\ ~panicked
    /\ fpc = "spawn"
    /\ wg' = wg + 1
    /\ wpc' = [wpc EXCEPT ![fi] = "recv"]
    /\ fi' = IF fi + 1 = numWorkers THEN 0 ELSE fi + 1
    /\ fpc' = IF fi + 1 = numWorkers THEN "closer" ELSE "spawn"
    /\ UNCHANGED <<envVars, ctxDone, limVars, runVars, callVars, chanVars,
                   woff, wres, results, cpc, panicked, attempts>>

\* go func() { wg.Wait(); close(offsetChan); close(resultChan) }()
GoCloser ==
    /\ ~panicked
    /\ fpc = "closer"
    /\ cpc' = "wait"
    /\ fpc' = "collect"
    /\ UNCHANGED <<envVars, ctxDone, limVars, runVars, callVars, fi, chanVars,
                   wg, workerVars, results, panicked, attempts>>

\* for offset := range offsetChan: take the next offset, or leave the loop
\* (and run the deferred wg.Done) when the channel is closed and drained.
WorkerRecv(w) ==
    /\ ~panicked
    /\ wpc[w] = "recv"
    /\ Len(offsetChan) > 0 \/ offsetClosed
    /\ IF Len(offsetChan) > 0
       THEN /\ woff' = [woff EXCEPT ![w] = Head(offsetChan)]
            /\ offsetChan' = Tail(offsetChan)
            /\ wpc' = [wpc EXCEPT ![w] = "wait"]
            /\ wg' = wg
       ELSE /\ wpc' = [wpc EXCEPT ![w] = "done"]
            /\ wg' = wg - 1
            /\ UNCHANGED <<woff, offsetChan>>
    /\ UNCHANGED <<envVars, ctxDone, limVars, runVars, callVars, fpc, fi,
                   offsetClosed, resultClosed, wres, results, cpc, panicked,
                   attempts>>

\* The window of the last LimiterRate ticks after one more tick has passed.
Shift(log) == <<0>> \o SubSeq(log, 1, LimiterRate - 1)

\* f.limiter.Wait(f.ctx), its result dropped, then the request is started.
\* Wait returns an error at once, taking no token, when the context is done.
\* Otherwise it takes a token: at once when the bucket holds one, else after
\* sleeping until the next refill, one tick later (the clock of the model
\* advances only here: every other step of the program takes no time, which
\* is the densest schedule the limiter admits).  Whatever Wait returns, the
\* worker goes on to fetchQuery.
LimiterWait(w) ==
    /\ ~panicked
    /\ wpc[w] = "wait"
    /\ IF ctxDone \/ tokens >= 1
       THEN /\ tokens' = IF ctxDone THEN tokens ELSE tokens - 1
            /\ starts' = [starts EXCEPT ![1] = @ + 1]
       ELSE /\ tokens' = tokens
            /\ starts' = [Shift(starts) EXCEPT ![1] = 1]
    /\ attempts' = IF <<url, woff[w]>> \in DOMAIN attempts
                   THEN [attempts EXCEPT ![<<url, woff[w]>>] = @ + 1]
                   ELSE attempts @@ (<<url, woff[w]>> :> 1)
    /\ wpc' = [wpc EXCEPT ![w] = "fetch"]
    /\ UNCHANGED <<envVars, ctxDone, runVars, callVars, fpc, fi, chanVars, wg,
                   woff, wres, results, cpc, panicked>>

\* FetchQueryReturn with a FetchError ending the worker (return for continue).
FetchQueryReturnExit(w) ==
    /\ ~panicked
    /\ wpc[w] = "fetch"
    /\ LET r == fetchQuery(url, woff[w], pageLimit)
       IN  IF r.err
           THEN /\ wpc' = [wpc EXCEPT ![w] = "done"]
                /\ woff' = [woff EXCEPT ![w] = NoOffset]
                /\ wres' = wres
                /\ wg' = wg - 1
           ELSE /\ wpc' = [wpc EXCEPT ![w] = "send"]
                /\ wres' = [wres EXCEPT ![w] = r.res]
                /\ woff' = woff
                /\ wg' = wg
    /\ UNCHANGED <<envVars, ctxDone, limVars, runVars, callVars, fpc, fi,
                   chanVars, results, cpc, panicked, attempts>>

\* FetchQueryReturn with a retry: the failed offset goes back on the queue.
FetchQueryReturnRetry(w) ==
    /\ ~panicked
    /\ wpc[w] = "fetch"
    /\ LET r == fetchQuery(url, woff[w], pageLimit)
       IN  IF r.err
           THEN /\ wpc' = [wpc EXCEPT ![w] = "recv"]
                /\ woff' = [woff EXCEPT ![w] = NoOffset]
                /\ wres' = wres
                /\ offsetChan' = Append(offsetChan, woff[w])
           ELSE /\ wpc' = [wpc EXCEPT ![w] = "send"]
                /\ wres' = [wres EXCEPT ![w] = r.res]
                /\ woff' = woff
                /\ offsetChan' = offsetChan
    /\ UNCHANGED <<envVars, ctxDone, limVars, runVars, callVars, fpc, fi,
                   offsetClosed, resultClosed, wg, results, cpc, panicked,
                   attempts>>

\* res, err := f.fetchQuery(...); if err != nil { log; continue }
FetchQueryReturn(w) ==
    /\ ~panicked
    /\ wpc[w] = "fetch"
    /\ LET r == fetchQuery(url, woff[w], pageLimit)
       IN  IF r.err
           THEN /\ wpc' = [wpc EXCEPT ![w] = "recv"]
                /\ woff' = [woff EXCEPT ![w] = NoOffset]
                /\ wres' = wres
           ELSE /\ wpc' = [wpc EXCEPT ![w] = "send"]
                /\ wres' = [wres EXCEPT ![w] = r.res]
                /\ woff' = woff
    /\ UNCHANGED <<envVars, ctxDone, limVars, runVars, callVars, fpc, fi,
                   chanVars, wg, results, cpc, panicked, attempts>>

\* SendResult with the page assigned to results instead of appended.
SendResultOverwrite(w) ==
    /\ ~panicked
    /\ wpc[w] = "send"
    /\ resultClosed \/ fpc = "collect"
    /\ IF resultClosed
       THEN /\ panicked' = TRUE
            /\ UNCHANGED <<results, wpc>>
       ELSE /\ results' = wres[w]
            /\ wpc' = [wpc EXCEPT ![w] = "next"]
            /\ panicked' = panicked
    /\ UNCHANGED <<envVars, ctxDone, limVars, runVars, callVars, fpc, fi,
                   chanVars, wg, woff, wres, cpc, attempts>>

\* resultChan <- res, met by the collector's
\* for r := range resultChan { results = append(results, r...) }.
\* resultChan is unbuffered: the send completes only with the collector
\* receiving.  A send on a closed channel panics.
SendResult(w) ==
    /\ ~panicked
    /\ wpc[w] = "send"
    /\ resultClosed \/ fpc = "collect"
    /\ IF resultClosed
       THEN /\ panicked' = TRUE
            /\ UNCHANGED <<results, wpc>>
       ELSE /\ results' = results \o wres[w]
            /\ wpc' = [wpc EXCEPT ![w] = "next"]
            /\ panicked' = panicked
    /\ UNCHANGED <<envVars, ctxDone, limVars, runVars, callVars, fpc, fi,
                   chanVars, wg, woff, wres, cpc, attempts>>

\* WorkerNext with the stripe ended by a full page too (<= for <).
WorkerNextLeq(w) ==
    /\ ~panicked
    /\ wpc[w] = "next"
    /\ \/ Len(wres[w]) <= pageLimit
       \/ offsetClosed
       \/ Len(offsetChan) < OffsetChanCap
    /\ IF Len(wres[w]) <= pageLimit
       THEN /\ wpc' = [wpc EXCEPT ![w] = "done"]
            /\ wg' = wg - 1
            /\ UNCHANGED <<offsetChan, panicked>>
       ELSE IF offsetClosed
       THEN /\ panicked' = TRUE
            /\ UNCHANGED <<offsetChan, wpc, wg>>
       ELSE /\ offsetChan' = Append(offsetChan, woff[w] + pageLimit * numWorkers)
            /\ wpc' = [wpc EXCEPT ![w] = "recv"]
            /\ UNCHANGED <<wg, panicked>>
    /\ woff' = [woff EXCEPT ![w] = NoOffset]
    /\ wres' = [wres EXCEPT ![w] = <<>>]
    /\ UNCHANGED <<envVars, ctxDone, limVars, runVars, callVars, fpc, fi,
                   offsetClosed, resultClosed, results, cpc, attempts>>

\* WorkerNext with the stripe ended by an empty page only.
WorkerNextEmptyOnly(w) ==
    /\ ~panicked
    /\ wpc[w] = "next"
    /\ \/ Len(wres[w]) = 0
       \/ offsetClosed
       \/ Len(offsetChan) < OffsetChanCap
    /\ IF Len(wres[w]) = 0
       THEN /\ wpc' = [wpc EXCEPT ![w] = "done"]
            /\ wg' = wg - 1
            /\ UNCHANGED <<offsetChan, panicked>>
       ELSE IF offsetClosed
       THEN /\ panicked' = TRUE
            /\ UNCHANGED <<offsetChan, wpc, wg>>
       ELSE /\ offsetChan' = Append(offsetChan, woff[w] + pageLimit * numWorkers)
            /\ wpc' = [wpc EXCEPT ![w] = "recv"]
            /\ UNCHANGED <<wg, panicked>>
    /\ woff' = [woff EXCEPT ![w] = NoOffset]
    /\ wres' = [wres EXCEPT ![w] = <<>>]
    /\ UNCHANGED <<envVars, ctxDone, limVars, runVars, callVars, fpc, fi,
                   offsetClosed, resultClosed, results, cpc, attempts>>

\* WorkerNext with the stride of one page instead of one page per worker.
WorkerNextOnePage(w) ==
    /\ ~panicked
    /\ wpc[w] = "next"
    /\ \/ Len(wres[w]) < pageLimit
       \/ offsetClosed
       \/ Len(offsetChan) < OffsetChanCap
    /\ IF Len(wres[w]) < pageLimit
       THEN /\ wpc' = [wpc EXCEPT ![w] = "done"]
            /\ wg' = wg - 1
            /\ UNCHANGED <<offsetChan, panicked>>
       ELSE IF offsetClosed
       THEN /\ panicked' = TRUE
            /\ UNCHANGED <<offsetChan, wpc, wg>>
       ELSE /\ offsetChan' = Append(offsetChan, woff[w] + pageLimit)
            /\ wpc' = [wpc EXCEPT ![w] = "recv"]
            /\ UNCHANGED <<wg, panicked>>
    /\ woff' = [woff EXCEPT ![w] = NoOffset]
    /\ wres' = [wres EXCEPT ![w] = <<>>]
    /\ UNCHANGED <<envVars, ctxDone, limVars, runVars, callVars, fpc, fi,
                   offsetClosed, resultClosed, results, cpc, attempts>>

\* if len(res) < pageLimit { return }   (the deferred wg.Done runs)
\* offsetChan <- offset + pageLimit*numWorkers
WorkerNext(w) ==
    /\ ~panicked
    /\ wpc[w] = "next"
    /\ \/ Len(wres[w]) < pageLimit
       \/ offsetClosed
       \/ Len(offsetChan) < OffsetChanCap
    /\ IF Len(wres[w]) < pageLimit
       THEN /\ wpc' = [wpc EXCEPT ![w] = "done"]
            /\ wg' = wg - 1
            /\ UNCHANGED <<offsetChan, panicked>>
       ELSE IF offsetClosed
       THEN /\ panicked' = TRUE
            /\ UNCHANGED <<offsetChan, wpc, wg>>
       ELSE /\ offsetChan' = Append(offsetChan, woff[w] + pageLimit * numWorkers)
            /\ wpc' = [wpc EXCEPT ![w] = "recv"]
            /\ UNCHANGED <<wg, panicked>>
    /\ woff' = [woff EXCEPT ![w] = NoOffset]
    /\ wres' = [wres EXCEPT ![w] = <<>>]
    /\ UNCHANGED <<envVars, ctxDone, limVars, runVars, callVars, fpc, fi,
                   offsetClosed, resultClosed, results, cpc, attempts>>

\* CloserWait without the join: the closer goes on while workers run.
CloserWaitNoJoin ==
    /\ ~panicked
    /\ cpc = "wait"
    /\ cpc' = "closeOffset"
    /\ UNCHANGED <<envVars, ctxDone, limVars, runVars, callVars, fpc, fi,
                   chanVars, wg, workerVars, results, panicked, attempts>>

\* wg.Wait() returns once the counter is zero.
CloserWait ==
    /\ ~panicked
    /\ cpc = "wait"
    /\ wg = 0
    /\ cpc' = "closeOffset"
    /\ UNCHANGED <<envVars, ctxDone, limVars, runVars, callVars, fpc, fi,
                   chanVars, wg, workerVars, results, panicked, attempts>>

\* close(offsetChan)
CloseOffset ==
    /\ ~panicked
    /\ cpc = "closeOffset"
    /\ offsetClosed' = TRUE
    /\ cpc' = "closeResult"
    /\ UNCHANGED <<envVars, ctxDone, limVars, runVars, callVars, fpc, fi,
                   offsetChan, resultClosed, wg, workerVars, results, panicked,
                   attempts>>

\* close(resultChan)
CloseResult ==
    /\ ~panicked
    /\ cpc = "closeResult"
    /\ resultClosed' = TRUE
    /\ cpc' = "done"
    /\ UNCHANGED <<envVars, ctxDone, limVars, runVars, callVars, fpc, fi,
                   offsetChan, offsetClosed, wg, workerVars, results, panicked,
                   attempts>>

\* FetchAllReturn as soon as the workers have joined, resultChan still open.
FetchAllReturnOnJoin ==
    /\ ~panicked
    /\ fpc = "collect"
    /\ wg = 0
    /\ fpc' = "returned"
    /\ UNCHANGED <<envVars, ctxDone, limVars, runVars, callVars, fi, chanVars,
                   wg, workerVars, results, cpc, panicked, attempts>>

\* The collector's range loop ends when resultChan is closed: return results.
FetchAllReturn ==
    /\ ~panicked
    /\ fpc = "collect"
    /\ resultClosed
    /\ fpc' = "returned"
    /\ UNCHANGED <<envVars, ctxDone, limVars, runVars, callVars, fi, chanVars,
                   wg, workerVars, results, cpc, panicked, attempts>>

\* ------------------------------------------------------- limiter and context
\* The run-scoped context is cancelled (or its deadline passes).
Cancel ==
    /\ ~ctxDone
    /\ mainPc # "returned"
    /\ ctxDone' = TRUE
    /\ UNCHANGED <<envVars, limVars, runVars, fetchVars>>

\* ------------------------------------------------------- fetchAndStoreData
\* How the token endpoint can answer.  A refusal (status 400) carries a JSON
\* object with no access_token field.
AuthReplies ==
    { [transport |-> "failed", status |-> 0, body |-> "none"],
      [transport |-> "ok", status |-> 200, body |-> "token"],
      [transport |-> "ok", status |-> 400, body |-> "message"],
      [transport |-> "ok", status |-> 500, body |-> "garbage"],
      [transport |-> "ok", status |-> 200, body |-> "garbage"] }

\* retrieveAuthToken: http.Post, then json Decode of the body into
\* AuthTokenResponse.  The status code is not looked at.
retrieveAuthToken(reply) ==
    IF reply.transport # "ok"
    THEN [err |-> TRUE, token |-> ""]
    ELSE IF reply.body = "garbage"
    THEN [err |-> TRUE, token |-> ""]
    ELSE [err |-> FALSE,
          token |-> IF reply.body = "token" THEN "tok" ELSE ""]

\* CheckCredentials with && for ||: only both missing is an error.
CheckCredentialsAnd ==
    /\ mainPc = "start"
    /\ IF env.clientID = "" /\ env.clientSecret = ""
       THEN /\ mainPc' = "returned"
            /\ runErr' = "MissingCredentials"
       ELSE /\ mainPc' = "auth"
            /\ runErr' = runErr
    /\ UNCHANGED <<envVars, ctxDone, limVars, accessToken, authCalls, kindIdx,
                   collections, pending, upAttempts, uploaded, fetchVars>>

\* if clientID == "" || clientSecret == "" { return fmt.Errorf(...) }
CheckCredentials ==
    /\ mainPc = "start"
    /\ IF env.clientID = "" \/ env.clientSecret = ""
       THEN /\ mainPc' = "returned"
            /\ runErr' = "MissingCredentials"
       ELSE /\ mainPc' = "auth"
            /\ runErr' = runErr
    /\ UNCHANGED <<envVars, ctxDone, limVars, accessToken, authCalls, kindIdx,
                   collections, pending, upAttempts, uploaded, fetchVars>>

\* Authenticate with the error of retrieveAuthToken dropped.
AuthenticateErrDropped ==
    /\ mainPc = "auth"
    /\ mainPc' = "call"
    /\ authCalls' = authCalls + 1
    /\ accessToken' = retrieveAuthToken(authReply).token
    /\ tokens' = LimiterBurst
    /\ UNCHANGED <<envVars, ctxDone, starts, runErr, kindIdx, collections,
                   pending, upAttempts, uploaded, fetchVars>>

\* authResp, err := retrieveAuthToken(...); if err != nil { return err }
\* then limiter := rate.NewLimiter(4, 1); numWorkers := 3; pageLimit := 500
Authenticate ==
    /\ mainPc = "auth"
    /\ authCalls' = authCalls + 1
    /\ LET a == retrieveAuthToken(authReply)
       IN  IF a.err
           THEN /\ mainPc' = "returned"
                /\ runErr' = "AuthError"
                /\ UNCHANGED <<accessToken, tokens>>
           ELSE /\ mainPc' = "call"
                /\ accessToken' = a.token
                /\ tokens' = LimiterBurst
                /\ runErr' = runErr
    /\ UNCHANGED <<envVars, ctxDone, starts, kindIdx, collections, pending,
                   upAttempts, uploaded, fetchVars>>

\* Every offset fetchAll can reach against k records: with these all failing,
\* no request of the kind succeeds.
AllOffsets(k, l, n) == {j * l : j \in 0..((k \div l) + n)}

\* CallFetchAll with the token acquired again for each Fetcher.
CallFetchAllReauth ==
    /\ mainPc = "call"
    /\ mainPc' = "fetching"
    /\ authCalls' = authCalls + 1
    /\ FetchFrame(KindOrder[kindIdx], RunWorkers, RunPageLimit)
    /\ \E k \in 0..MaxRunRecords :
       \E bad \in FailChoices(k, RunPageLimit)
                    \cup {AllOffsets(k, RunPageLimit, RunWorkers)} :
          /\ dataLen' = [dataLen EXCEPT ![KindOrder[kindIdx]] = k]
          /\ failing' = [failing EXCEPT ![KindOrder[kindIdx]] = bad]
    /\ UNCHANGED <<env, authReply, ctxDone, limVars, accessToken, runErr,
                   kindIdx, collections, pending, upAttempts, uploaded,
                   panicked, attempts>>

\* xFetcher := Fetcher[X]{...}; x := xFetcher.fetchAll(xQuery, numWorkers, pageLimit)
\* What the API holds for the kind, and where it fails, is drawn here, when
\* the kind's first request becomes possible.
CallFetchAll ==
    /\ mainPc = "call"
    /\ mainPc' = "fetching"
    /\ FetchFrame(KindOrder[kindIdx], RunWorkers, RunPageLimit)
    /\ \E k \in 0..MaxRunRecords :
       \E bad \in FailChoices(k, RunPageLimit)
                    \cup {AllOffsets(k, RunPageLimit, RunWorkers)} :
          /\ dataLen' = [dataLen EXCEPT ![KindOrder[kindIdx]] = k]
          /\ failing' = [failing EXCEPT ![KindOrder[kindIdx]] = bad]
    /\ UNCHANGED <<env, authReply, ctxDone, limVars, accessToken, authCalls,
                   runErr, kindIdx, collections, pending, upAttempts, uploaded,
                   panicked, attempts>>

\* AssignCollection with the result slice read while the collector loop of
\* fetchAll is still running.
AssignCollectionEarly ==
    /\ mainPc = "fetching"
    /\ fpc \in {"collect", "returned"}
    /\ collections' = [collections EXCEPT ![url] = results]
    /\ IF kindIdx < Len(KindOrder)
       THEN /\ kindIdx' = kindIdx + 1
            /\ mainPc' = "call"
            /\ pending' = pending
       ELSE /\ kindIdx' = kindIdx
            /\ mainPc' = "upload"
            /\ pending' = Files
    /\ UNCHANGED <<envVars, ctxDone, limVars, accessToken, authCalls, runErr,
                   upAttempts, uploaded, fetchVars>>

\* AssignCollection with the upload phase entered after each kind's fetchAll.
AssignCollectionNoLoop ==
    /\ mainPc = "fetching"
    /\ fpc = "returned"
    /\ collections' = [collections EXCEPT ![url] = results]
    /\ kindIdx' = kindIdx
    /\ mainPc' = "upload"
    /\ pending' = Files
    /\ UNCHANGED <<envVars, ctxDone, limVars, accessToken, authCalls, runErr,
                   upAttempts, uploaded, fetchVars>>

\* fetchAll has returned: its result is the kind's collection.  After the
\* third kind, fileMap is built.
AssignCollection ==
    /\ mainPc = "fetching"
    /\ fpc = "returned"
    /\ collections' = [collections EXCEPT ![url] = results]
    /\ IF kindIdx < Len(KindOrder)
       THEN /\ kindIdx' = kindIdx + 1
            /\ mainPc' = "call"
            /\ pending' = pending
       ELSE /\ kindIdx' = kindIdx
            /\ mainPc' = "upload"
            /\ pending' = Files
    /\ UNCHANGED <<envVars, ctxDone, limVars, accessToken, authCalls, runErr,
                   upAttempts, uploaded, fetchVars>>

\* uploadToS3: an error when S3_BUCKET is unset or PutObject fails.
uploadToS3(putOk) == IF env.bucket = "" THEN FALSE ELSE putOk

\* The collection serialised into the file of its kind.
KindOf(file) == CHOOSE k \in Kinds : FileOf(k) = file

\* Upload with the loop left (break) at the first upload error.
UploadStopOnError(file) ==
    /\ mainPc = "upload"
    /\ file \in pending
    /\ pending' = pending \ {file}
    /\ upAttempts' = [upAttempts EXCEPT ![file] = @ + 1]
    /\ \E putOk \in BOOLEAN :
          IF uploadToS3(putOk)
          THEN /\ uploaded' = (file :> collections[KindOf(file)]) @@ uploaded
               /\ IF pending = {file}
                  THEN /\ mainPc' = "returned"
                       /\ runErr' = "nil"
                  ELSE UNCHANGED <<mainPc, runErr>>
          ELSE /\ uploaded' = uploaded
               /\ mainPc' = "returned"
               /\ runErr' = "nil"
    /\ UNCHANGED <<envVars, ctxDone, limVars, accessToken, authCalls, kindIdx,
                   collections,
                   fetchVars>>

\* Upload with the upload error returned to the caller.
UploadErrReturned(file) ==
    /\ mainPc = "upload"
    /\ file \in pending
    /\ pending' = pending \ {file}
    /\ upAttempts' = [upAttempts EXCEPT ![file] = @ + 1]
    /\ \E putOk \in BOOLEAN :
          IF uploadToS3(putOk)
          THEN /\ uploaded' = (file :> collections[KindOf(file)]) @@ uploaded
               /\ IF pending = {file}
                  THEN /\ mainPc' = "returned"
                       /\ runErr' = "nil"
                  ELSE UNCHANGED <<mainPc, runErr>>
          ELSE /\ uploaded' = uploaded
               /\ mainPc' = "returned"
               /\ runErr' = "UploadError"
    /\ UNCHANGED <<envVars, ctxDone, limVars, accessToken, authCalls, kindIdx,
                   collections,
                   fetchVars>>

\* One iteration of for filename, value := range fileMap (a Go map: any
\* order): MarshalIndent, which cannot fail on these slices, then
\* uploadToS3; an error is logged.  After the last entry: return nil.
Upload(file) ==
    /\ mainPc = "upload"
    /\ file \in pending
    /\ pending' = pending \ {file}
    /\ upAttempts' = [upAttempts EXCEPT ![file] = @ + 1]
    /\ \E putOk \in BOOLEAN :
          uploaded' = IF uploadToS3(putOk)
                      THEN (file :> collections[KindOf(file)]) @@ uploaded
                      ELSE uploaded
    /\ IF pending = {file}
       THEN /\ mainPc' = "returned"
            /\ runErr' = "nil"
       ELSE UNCHANGED <<mainPc, runErr>>
    /\ UNCHANGED <<envVars, ctxDone, limVars, accessToken, authCalls, kindIdx,
                   collections,
                   fetchVars>>

\* ------------------------------------------------------------ specifications
\* The run's environment when nothing has failed.
GoodEnv == [clientID |-> "id", clientSecret |-> "secret", bucket |-> "bucket"]
GoodReply == [transport |-> "ok", status |-> 200, body |-> "token"]

\* One fetchAll call of the Fetcher of one kind, given n workers, page limit l,
\* and an API holding k records that fails at the offsets in bad.
InitCall(kind, n, l, k, bad) ==
    /\ env = GoodEnv
    /\ authReply = GoodReply
    /\ dataLen = [x \in Kinds |-> IF x = kind THEN k ELSE 0]
    /\ failing = [x \in Kinds |-> IF x = kind THEN bad ELSE {}]
    /\ ctxDone = FALSE
    /\ tokens = LimiterBurst
    /\ starts = [j \in 1..LimiterRate |-> 0]
    /\ mainPc = "fetching"
    /\ accessToken = "tok"
    /\ authCalls = 1
    /\ runErr = "none"
    /\ kindIdx = 2
    /\ collections = [x \in Kinds |-> <<>>]
    /\ pending = {}
    /\ upAttempts = [f \in Files |-> 0]
    /\ uploaded = << >>
    /\ url = kind
    /\ numWorkers = n
    /\ pageLimit = l
    /\ fpc = "seed"
    /\ fi = 0
    /\ offsetChan = <<>>
    /\ offsetClosed = FALSE
    /\ resultClosed = FALSE
    /\ wg = 0
    /\ wpc = [w \in 0..(n - 1) |-> "unborn"]
    /\ woff = [w \in 0..(n - 1) |-> NoOffset]
    /\ wres = [w \in 0..(n - 1) |-> <<>>]
    /\ results = <<>>
    /\ cpc = "unborn"
    /\ panicked = FALSE
    /\ attempts = << >>

\* fetchAll is explored for every worker count up to MaxWorkers and for the
\* run's own worker count, page limit up to MaxPageLimit and data length such
\* that an error-free call issues at most MaxRequests page requests (one per
\* full page and one per worker); and for the first worker count above the
\* capacity of offsetChan.
InitFetch ==
    \/ \E n \in (1..MaxWorkers) \cup {RunWorkers}, l \in 1..MaxPageLimit,
          k \in 0..(MaxRequests * MaxPageLimit) :
          /\ n + (k \div l) <= MaxRequests
          /\ \E bad \in FailChoices(k, l) : InitCall("games", n, l, k, bad)
    \/ \E k \in 0..1 : InitCall("games", OffsetChanCap + 1, 1, k, {})

\* A step of one of fetchAll's goroutines.
FetchStep ==
    \/ Seed
    \/ Spawn
    \/ GoCloser
    \/ \E w \in Workers : WorkerRecv(w)
    \/ \E w \in Workers : LimiterWait(w)
    \/ \E w \in Workers : FetchQueryReturn(w)
    \/ \E w \in Workers : SendResult(w)
    \/ \E w \in Workers : WorkerNext(w)
    \/ CloserWait
    \/ CloseOffset
    \/ CloseResult
    \/ FetchAllReturn

NextFetch ==
    \/ FetchStep
    \/ Cancel

\* One fetchAll call, under every interleaving of its goroutines.
SpecFetch == InitFetch /\ [][NextFetch]_vars

\* One fetchAll call under the Go scheduler: a goroutine that can run is
\* eventually run, so the call does not stop while one of its goroutines
\* can step.
SpecFetchFair == InitFetch /\ [][NextFetch]_vars /\ WF_vars(FetchStep)

\* The gap scenario: 10 records, page limit 2, the request at offset 4 fails;
\* beside it the same call with no failure.
InitGap ==
    \E n \in 1..MaxGapWorkers, bad \in {{}, {4}} :
        InitCall("games", n, 2, 10, bad)

SpecGap == InitGap /\ [][NextFetch]_vars

\* The limiter under load: as many workers as offsetChan holds seeds.
InitRate == InitCall("games", OffsetChanCap, 1, 0, {})

SpecRate == InitRate /\ [][NextFetch]_vars

\* What a run can be given: credentials present or missing, any answer of the
\* token endpoint, a bucket set or unset.  The page API's data is drawn per
\* kind by CallFetchAll.
Init ==
    /\ env \in [clientID : {"", "id"}, clientSecret : {"", "secret"},
                bucket : {"", "bucket"}]
    /\ authReply \in AuthReplies
    /\ dataLen = [x \in Kinds |-> 0]
    /\ failing = [x \in Kinds |-> {}]
    /\ ctxDone = FALSE
    /\ tokens = LimiterBurst
    /\ starts = [j \in 1..LimiterRate |-> 0]
    /\ mainPc = "start"
    /\ accessToken = ""
    /\ authCalls = 0
    /\ runErr = "none"
    /\ kindIdx = 1
    /\ collections = [x \in Kinds |-> <<>>]
    /\ pending = {}
    /\ upAttempts = [f \in Files |-> 0]
    /\ uploaded = << >>
    /\ url = "none"
    /\ numWorkers = 0
    /\ pageLimit = 0
    /\ fpc = "idle"
    /\ fi = 0
    /\ offsetChan = <<>>
    /\ offsetClosed = FALSE
    /\ resultClosed = FALSE
    /\ wg = 0
    /\ wpc = << >>
    /\ woff = << >>
    /\ wres = << >>
    /\ results = <<>>
    /\ cpc = "unborn"
    /\ panicked = FALSE
    /\ attempts = << >>

Next ==
    \/ CheckCredentials
    \/ Authenticate
    \/ CallFetchAll
    \/ AssignCollection
    \/ \E file \in Files : Upload(file)
    \/ NextFetch

\* A whole run of fetchAndStoreData.
Spec == Init /\ [][Next]_vars

\* ------------------------------------------------------------------ helpers
RECURSIVE SumSeq(_)
SumSeq(q) == IF q = <<>> THEN 0 ELSE Head(q) + SumSeq(Tail(q))

\* Request starts within the last second (LimiterRate ticks, the current one
\* included).
WindowStarts == SumSeq(starts)

RecordsOf(q) == {q[j] : j \in 1..Len(q)}

\* The offsets the current Fetcher has passed to fetchQuery.
Attempted == {x[2] : x \in {y \in DOMAIN attempts : y[1] = url}}

\* The page API neither fails nor rejects the token.
ErrorFree == accessToken # "" /\ failing[url] = {}

CredentialsSet == env.clientID # "" /\ env.clientSecret # ""

\* Stripe i: i*L, i*L + L*N, i*L + 2*L*N, ...  far enough to pass the data.
Stripe(i) ==
    {i * pageLimit + j * pageLimit * numWorkers :
        j \in 0..((dataLen[url] \div pageLimit) + 1)}

FullPage(o) == Len(Page(url, o, pageLimit)) = pageLimit

\* The offsets of stripe i up to and including its first partial page.
StripeToPartial(i) ==
    {o \in Stripe(i) : \A o2 \in Stripe(i) : o2 < o => FullPage(o2)}

ExpectedOffsets == UNION {StripeToPartial(i) : i \in Workers}

\* The records that lie in no failing page.
RecordsOutsideFailures ==
    {<<url, i>> : i \in {j \in 0..(dataLen[url] - 1) :
        \A o \in failing[url] : j < o \/ j >= o + pageLimit}}

\* ------------------------------------------------------------------- claims

\* C1: against an error-free API holding K records, fetchAll terminates for
\* any worker count N >= 1, N above the buffer of offsetChan included: as
\* long as it has not returned one of its goroutines can step, and when it
\* returns every worker has exited, both channels are closed and the result
\* holds exactly K records.
C1_TerminatesWithAllRecords ==
    ErrorFree =>
        /\ fpc = "returned" \/ ENABLED FetchStep
        /\ fpc = "returned" =>
              /\ Len(results) = dataLen[url]
              /\ \A w \in Workers : wpc[w] = "done"
              /\ offsetClosed /\ resultClosed

\* C2: a FetchError is not fatal to termination: when the API fails at one
\* offset only, fetchAll still returns; no state is reached where it has not
\* returned and none of its goroutines can step.
C2_FetchErrorNonFatal ==
    Cardinality(failing[url]) = 1 => (fpc = "returned" \/ ENABLED FetchStep)

\* C3: a FetchError loses only the failed page: once fetchAll can make no
\* further progress, the records collected are exactly those outside the
\* failing page.
C3_OnlyFailedPageLost ==
    (failing[url] # {} /\ ~ENABLED FetchStep) =>
        /\ RecordsOf(results) = RecordsOutsideFailures
        /\ Len(results) = Cardinality(RecordsOutsideFailures)

\* C4: coverage in an error-free call: only offsets of a stripe up to and
\* including its first partial page are ever attempted, and when fetchAll
\* returns exactly those have been attempted, every multiple of L below K
\* among them.
C4_Coverage ==
    ErrorFree =>
        /\ Attempted \subseteq ExpectedOffsets
        /\ fpc = "returned" =>
              /\ Attempted = ExpectedOffsets
              /\ \A m \in 0..dataLen[url] :
                    m * pageLimit < dataLen[url] => m * pageLimit \in Attempted

\* C4 witness: an error-free call of several workers has returned after some
\* stripe went past its seed.
C4_Witness ==
    /\ ErrorFree
    /\ fpc = "returned"
    /\ numWorkers >= 2
    /\ pageLimit * numWorkers \in Attempted

\* C5: no offset is passed to fetchQuery more than once, with or without
\* FetchErrors, and an offset once attempted is never on the queue again.
C5_NoDuplicateAttempt ==
    /\ \A x \in DOMAIN attempts : attempts[x] = 1
    /\ \A j \in 1..Len(offsetChan) : offsetChan[j] \notin Attempted

\* C5 witness: the request of a failing offset has failed and its worker has
\* gone on, and other offsets have been attempted as well.
C5_Witness ==
    /\ \E o \in failing[url] :
          /\ o \in Attempted
          /\ \A w \in Workers : woff[w] # o
    /\ Cardinality(Attempted) >= 3

\* C6: no send on a closed channel: no panic occurs, offsetChan is closed
\* only when every worker has exited, and resultChan only after offsetChan.
C6_NoWriteAfterClose ==
    /\ ~panicked
    /\ offsetClosed => \A w \in Workers : wpc[w] = "done"
    /\ resultClosed => offsetClosed

\* C6 witness: both channels are closed after several workers delivered
\* pages.
C6_Witness ==
    /\ resultClosed
    /\ numWorkers >= 2
    /\ Len(results) >= 2

\* C7: when retrieveAuthToken returns an error, fetchAndStoreData returns
\* that error: no Fetcher is built, no page request is issued for any kind,
\* nothing is uploaded.
C7_AuthFailureIsFatal ==
    (CredentialsSet /\ retrieveAuthToken(authReply).err
       /\ mainPc \notin {"start", "auth"}) =>
        /\ mainPc = "returned"
        /\ runErr = "AuthError"
        /\ fpc = "idle"
        /\ DOMAIN attempts = {}
        /\ \A f \in Files : upAttempts[f] = 0

\* C7 witness: a run has returned the error of retrieveAuthToken.
C7_Witness ==
    /\ CredentialsSet
    /\ retrieveAuthToken(authReply).err
    /\ mainPc = "returned"
    /\ runErr = "AuthError"

\* C8: every failed auth exchange (a status other than success, a transport
\* failure, an undecodable body) makes the run return an AuthError, no page
\* request issued.
C8_FailedExchangeIsAuthError ==
    (CredentialsSet
       /\ (authReply.transport # "ok" \/ authReply.status # 200
             \/ authReply.body = "garbage")
       /\ mainPc \notin {"start", "auth"}) =>
        /\ runErr = "AuthError"
        /\ fpc = "idle"
        /\ DOMAIN attempts = {}

\* C9: rate bound: at most LimiterRate (4) page requests start in any window
\* of one second.
C9_RateBound == WindowStarts <= LimiterRate

\* C10: once the context is cancelled, no worker puts a further offset on
\* offsetChan.
C10_NoEnqueueAfterCancel ==
    [][ctxDone => ~(\E w \in Workers : wpc[w] = "next" /\ wpc'[w] = "recv")]_vars

\* The stripe an offset belongs to: offset i*L + k*L*N lies in stripe i.
StripeOf(o) == (o \div pageLimit) % numWorkers

\* The offsets waiting on offsetChan.
Queued == {offsetChan[j] : j \in 1..Len(offsetChan)}

\* How many offsets of stripe i are on the queue or in a worker's hands.
InFlight(i) ==
    Cardinality({j \in 1..Len(offsetChan) : StripeOf(offsetChan[j]) = i})
    + Cardinality({w \in Workers : woff[w] # NoOffset /\ StripeOf(woff[w]) = i})

\* One step of the run other than the cancellation of its context.
RunStep ==
    \/ CheckCredentials
    \/ Authenticate
    \/ CallFetchAll
    \/ AssignCollection
    \/ \E file \in Files : Upload(file)
    \/ FetchStep

\* C11: no request without a token: a worker goes from the limiter's Wait to
\* fetchQuery only when Wait ended by obtaining a token, never when it ended
\* because the context is cancelled.
C11_NoRequestWithoutToken ==
    [][(\E w \in Workers : wpc[w] = "wait" /\ wpc'[w] = "fetch") => ~ctxDone]_vars

\* C12: entity kinds are independent under failure: when every page fetch of
\* genres fails (the token being accepted), the run still goes on to games
\* and franchises; it does not come to rest before it has returned with all
\* three collections handed to the sink.
C12_KindsIndependent ==
    (/\ accessToken # ""
     /\ failing["genres"] = AllOffsets(dataLen["genres"], RunPageLimit, RunWorkers)
     /\ ~ENABLED RunStep) =>
        /\ mainPc = "returned"
        /\ \A f \in Files : upAttempts[f] = 1

\* C13 as stated: worker i fetches only offsets of stripe i.
C13_StripeOwnership ==
    \A w \in Workers : woff[w] # NoOffset => StripeOf(woff[w]) = w

\* C13 amended: the stripes are followed as lineages, whoever fetches them:
\* at most one offset of each stripe is queued or being fetched at a time,
\* every offset is a multiple of L, and an offset is queued or attempted only
\* after every earlier offset of its stripe has been attempted.
C13_StripeLineage ==
    /\ \A i \in Workers : InFlight(i) <= 1
    /\ \A o \in Queued \cup Attempted :
          /\ o % pageLimit = 0
          /\ \A j \in 1..(o \div pageLimit) :
                o - j * pageLimit * numWorkers >= 0
                    => (o - j * pageLimit * numWorkers) \in Attempted

\* C13 witness: a worker is fetching an offset past the seeds that lies in
\* another worker's stripe.
C13_Witness ==
    \E w \in Workers :
        /\ wpc[w] = "fetch"
        /\ woff[w] >= pageLimit * numWorkers
        /\ StripeOf(woff[w]) # w

\* Every record the API holds for the current kind.
AllRecords == {<<url, i>> : i \in 0..(dataLen[url] - 1)}

\* The seeds: pageLimit * i for each worker index i.
Seeds == {pageLimit * i : i \in Workers}

\* The offsets in workers' hands.
Held == {woff[w] : w \in Workers} \ {NoOffset}

\* The exact-fit scenario: K = 5, L = 2, N = 2, no errors.
ExactFit ==
    /\ ErrorFree
    /\ dataLen[url] = 5
    /\ pageLimit = 2
    /\ numWorkers = 2

\* C14: exact fit: with K = 5, L = 2, N = 2 and no errors fetchAll returns
\* under every interleaving (it never comes to rest before), having requested
\* the offsets 0, 2, 4, 6 (pages of 2, 2, 1, 0 records), and its collection
\* holds exactly the 5 records.
C14_ExactFit ==
    ExactFit =>
        /\ fpc = "returned" \/ ENABLED FetchStep
        /\ fpc = "returned" =>
              /\ Len(results) = 5
              /\ RecordsOf(results) = AllRecords
              /\ Attempted = {0, 2, 4, 6}

\* C14 witness: the exact-fit call has returned.
C14_Witness == ExactFit /\ fpc = "returned" /\ Len(results) = 5

\* C15: determinism of the record set: whatever the interleaving, a complete
\* error-free call returns one multiset fixed by the API's data alone: each
\* record the API holds, once.
C15_DeterministicSet ==
    (ErrorFree /\ fpc = "returned") =>
        /\ RecordsOf(results) = AllRecords
        /\ Len(results) = Cardinality(AllRecords)

\* C15 witness: a complete call of several workers whose pages arrived out of
\* offset order.
C15_Witness ==
    /\ ErrorFree
    /\ fpc = "returned"
    /\ numWorkers >= 2
    /\ \E a, b \in 1..Len(results) : a < b /\ results[a][2] > results[b][2]

\* C16: join before finalize: offsetChan is closed only after every worker
\* has exited, resultChan only after offsetChan, fetchAll returns only after
\* resultChan is closed, and once it has returned its collection no longer
\* changes.
C16_JoinBeforeFinalize ==
    /\ [](/\ offsetClosed => (wg = 0 /\ \A w \in Workers : wpc[w] = "done")
          /\ resultClosed => offsetClosed
          /\ fpc = "returned" =>
                (resultClosed /\ \A w \in Workers : wpc[w] = "done"))
    /\ [][fpc = "returned" => results' = results]_vars

\* C16 witness: fetchAll has returned the pages several workers delivered.
C16_Witness ==
    /\ fpc = "returned"
    /\ numWorkers >= 2
    /\ Len(results) >= 2
    /\ cpc = "done"

\* The auth exchange succeeded as far as retrieveAuthToken can tell.
AuthPassed == CredentialsSet /\ ~retrieveAuthToken(authReply).err

\* C17: upload errors are isolated: in the upload phase every file is
\* attempted exactly once, whether or not an earlier upload failed: a file
\* still to iterate has no attempt, a file iterated has one, the loop cannot
\* stop while files remain, and the run returns with one attempt per file.
C17_UploadsIsolated ==
    /\ \A f \in Files : upAttempts[f] <= 1
    /\ mainPc = "upload" =>
          /\ pending # {}
          /\ \A f \in Files : upAttempts[f] = (IF f \in pending THEN 0 ELSE 1)
          /\ ENABLED (\E file \in Files : Upload(file))
    /\ (mainPc = "returned" /\ runErr = "nil") =>
          \A f \in Files : upAttempts[f] = 1

\* C17 witness: the run has returned after an upload failed and another
\* succeeded.
C17_Witness ==
    /\ mainPc = "returned"
    /\ runErr = "nil"
    /\ DOMAIN uploaded # {}
    /\ DOMAIN uploaded # Files

\* C18: only an auth failure fails the run: with credentials present and
\* retrieveAuthToken succeeded, whatever fetchAndStoreData returns is nil.
C18_OnlyAuthFails ==
    (AuthPassed /\ mainPc = "returned") => runErr = "nil"

\* C18 witness: the run has returned nil although all three uploads failed,
\* S3_BUCKET being unset.
C18_Witness ==
    /\ AuthPassed
    /\ env.bucket = ""
    /\ mainPc = "returned"
    /\ runErr = "nil"
    /\ \A f \in Files : upAttempts[f] = 1
    /\ DOMAIN uploaded = {}

\* The requests that came back with no data from beyond the first page.
WastedRequests ==
    {o \in Attempted : o # 0 /\ Len(Page(url, o, pageLimit)) = 0}

\* C19: small collections self-limit: when the page at offset 0 is itself
\* partial (K < L) and no fetch fails, fetchAll terminates, for any worker
\* count, after exactly one request per stripe: only the N seeds are ever
\* requested, each once, nothing is queued again, and at most N-1 requests
\* return no data.
C19_SmallCollectionSelfLimits ==
    (ErrorFree /\ dataLen[url] < pageLimit) =>
        /\ fpc = "returned" \/ ENABLED FetchStep
        /\ Attempted \subseteq Seeds
        /\ \A x \in DOMAIN attempts : attempts[x] = 1
        /\ fpc \notin {"seed", "spawn"} => Queued \subseteq Seeds
        /\ fpc = "returned" =>
              /\ Attempted = Seeds
              /\ Cardinality(WastedRequests) <= numWorkers - 1

\* The successful fetch at offset o has returned a partial page.
PartialReturned(o) ==
    /\ o \in Attempted
    /\ ~fetchQuery(url, o, pageLimit).err
    /\ Len(Page(url, o, pageLimit)) < pageLimit
    /\ \A w \in Workers : woff[w] = o => wpc[w] \in {"send", "next"}

\* C20: a partial page ends the stripe: once a successful fetch at offset o
\* has returned fewer than L records, no later offset of o's stripe is
\* queued, held or attempted, and once the worker is past its send the
\* page's records are in the collection.
C20_PartialEndsStripe ==
    \A o \in Attempted :
        PartialReturned(o) =>
            /\ \A o2 \in Queued \cup Held \cup Attempted :
                  ~(o2 > o /\ StripeOf(o2) = StripeOf(o))
            /\ (\A w \in Workers : woff[w] # o) =>
                  RecordsOf(Page(url, o, pageLimit)) \subseteq RecordsOf(results)

\* C20 witness: a partial page that holds a record was delivered and its
\* worker has exited, in a call where the stripe had gone past its seed.
C20_Witness ==
    \E o \in Attempted :
        /\ PartialReturned(o)
        /\ o >= pageLimit * numWorkers
        /\ Len(Page(url, o, pageLimit)) >= 1
        /\ \A w \in Workers : woff[w] # o

\* Offset o is on the queue or in a worker's hands as the successor of a
\* full page (not as a seed).
SuccessorInFlight(o) == o \in Queued \cup Held /\ o >= pageLimit * numWorkers

\* Offset o has been passed to fetchQuery.
Fetched(o) == o \in Attempted

\* C21: a full page continues the stripe: a worker that holds a full page
\* after its send does not exit but puts offset o + L*N on the queue, the
\* page's records being in the collection by then; and that offset is
\* eventually fetched: an offset leaves the queue only into a worker's hands
\* and a worker's hands only after fetchQuery was called with it, and again
\* and again every successor offset in flight is one already fetched.
C21_FullPageContinues ==
    /\ [][\A w \in Workers :
            (wpc[w] = "next" /\ Len(wres[w]) = pageLimit /\ wpc'[w] # "next") =>
                /\ wpc'[w] = "recv"
                /\ offsetChan' = Append(offsetChan, woff[w] + pageLimit * numWorkers)
                /\ RecordsOf(wres[w]) \subseteq RecordsOf(results)]_vars
    /\ [][\A o \in Queued : o \notin Queued' => o \in Held']_vars
    /\ [][\A o \in Held : o \notin Held' => Fetched(o)]_vars
    /\ []<>(\A o \in Queued \cup Held : SuccessorInFlight(o) => Fetched(o))

\* C21 witness: the successor of a full page has been fetched.
C21_Witness ==
    \E o \in Attempted :
        /\ o >= pageLimit * numWorkers
        /\ \A w \in Workers : woff[w] # o
        /\ Len(Page(url, o - pageLimit * numWorkers, pageLimit)) = pageLimit
        /\ RecordsOf(Page(url, o - pageLimit * numWorkers, pageLimit))
              \subseteq RecordsOf(results)

\* Every goroutine of the current pool is through: the workers have exited,
\* the closer has closed both channels, fetchAll has returned.
PoolDrained ==
    /\ fpc = "returned"
    /\ resultClosed
    /\ cpc = "done"
    /\ \A w \in Workers : wpc[w] = "done"

\* C22: sink hand-off only after drain: a kind's collection is taken from
\* fetchAll only when that call has returned with its pool drained; uploads
\* happen only after that, of exactly the collection taken; and once the
\* upload phase has begun no collection changes.
C22_UploadAfterDrain ==
    /\ [](/\ mainPc = "upload" => PoolDrained
          /\ \A f \in Files : upAttempts[f] > 0 => mainPc \in {"upload", "returned"}
          /\ \A f \in DOMAIN uploaded : uploaded[f] = collections[KindOf(f)])
    /\ [][(mainPc = "fetching" /\ mainPc' # "fetching") =>
              /\ PoolDrained
              /\ collections' = [collections EXCEPT ![url] = results]]_vars
    /\ [][collections' # collections => (mainPc = "fetching" /\ PoolDrained)]_vars
    /\ [][(mainPc \in {"upload", "returned"}) => collections' = collections]_vars

\* C22 witness: a collection holding records has been put in the bucket.
C22_Witness ==
    \E f \in DOMAIN uploaded :
        /\ Len(uploaded[f]) >= 1
        /\ uploaded[f] = collections[KindOf(f)]

\* Page requests have been issued, or a pool has been set up.
FetchingBegun == DOMAIN attempts # {} \/ fpc # "idle"

\* C23 as stated: in every run exactly one auth exchange is performed, before
\* the first page request, its token used unchanged afterwards.
C23_AuthOnceFirst ==
    /\ mainPc = "returned" => authCalls = 1
    /\ FetchingBegun => authCalls = 1
    /\ FetchingBegun => accessToken = retrieveAuthToken(authReply).token

\* C23 amended: at most one auth exchange is performed in a run: exactly one
\* when both credentials are present, none when one is missing; it completes
\* before the first page request of any kind, and from then on the token is
\* the one it returned, never acquired again or changed.
C23_AuthOnceWhenCredentials ==
    /\ [](/\ authCalls <= 1
          /\ mainPc = "returned" => authCalls = (IF CredentialsSet THEN 1 ELSE 0)
          /\ FetchingBegun =>
                /\ authCalls = 1
                /\ mainPc \notin {"start", "auth"}
                /\ accessToken = retrieveAuthToken(authReply).token)
    /\ [][authCalls = 1 => (authCalls' = 1 /\ accessToken' = accessToken)]_vars

\* C23 witness: a run has returned after page requests of all three kinds,
\* one auth exchange made.
C23_Witness ==
    /\ mainPc = "returned"
    /\ runErr = "nil"
    /\ authCalls = 1
    /\ \A k \in Kinds : \E x \in DOMAIN attempts : x[1] = k

\* C24: no state shared across kinds: a fetchAll call starts on an empty,
\* open queue and an empty result slice, only when every goroutine of the
\* previous pool is through (pools run one after another, in the order
\* genres, games, franchises); every record in the result slice, in a
\* worker's hands and in a kind's collection is of that kind.
C24_NoCrossKindSharing ==
    /\ [](/\ \A j \in 1..Len(results) : results[j][1] = url
          /\ \A w \in Workers : \A j \in 1..Len(wres[w]) : wres[w][j][1] = url
          /\ \A k \in Kinds :
                \A j \in 1..Len(collections[k]) : collections[k][j][1] = k
          /\ mainPc = "fetching" => url = KindOrder[kindIdx]
          /\ (mainPc = "call" /\ kindIdx > 1) => PoolDrained)
    /\ [][(mainPc = "call" /\ mainPc' = "fetching") =>
              /\ kindIdx = 1 \/ (PoolDrained /\ url = KindOrder[kindIdx - 1])
              /\ offsetChan' = <<>> /\ results' = <<>>
              /\ ~offsetClosed' /\ ~resultClosed'
              /\ \A w \in 0..(numWorkers' - 1) : wpc'[w] = "unborn"]_vars

\* C24 witness: the games pool is delivering records after the genres pool
\* returned a collection of its own.
C24_Witness ==
    /\ url = "games"
    /\ mainPc = "fetching"
    /\ Len(results) >= 1
    /\ Len(collections["genres"]) >= 1

\* The workers that have not exited (those not yet started included).
LiveWorkers == {w \in Workers : wpc[w] # "done"}

\* The workers that hold an offset.
HoldingWorkers == {w \in Workers : woff[w] # NoOffset}

\* The FetchErrors so far: the attempted offsets whose fetchQuery returned an
\* error to its worker.
FetchErrors ==
    {o \in Attempted :
        /\ fetchQuery(url, o, pageLimit).err
        /\ \A w \in Workers : woff[w] # o}

\* C25: worker/lineage accounting: from the end of the seeding on, the
\* workers that have not exited, less the offsets buffered in offsetChan or
\* held by a worker, are as many as the FetchErrors so far; hence when the
\* call can make no further step, the workers left at the empty open queue
\* are as many as the FetchErrors, and fetchAll has returned if and only if no
\* fetch failed.
C25_Accounting ==
    /\ fpc # "seed" =>
          Cardinality(LiveWorkers) - (Len(offsetChan) + Cardinality(HoldingWorkers))
              = Cardinality(FetchErrors)
    /\ ~ENABLED FetchStep =>
          /\ fpc # "seed" =>
                Cardinality({w \in Workers : wpc[w] = "recv"})
                    = Cardinality(FetchErrors)
          /\ fpc = "returned" <=> FetchErrors = {}

\* C26: queue bound: the offsets buffered in offsetChan plus those held by
\* workers are at most N, as are the page requests in flight; so with N up
\* to the capacity of offsetChan the seeding loop and a worker's re-enqueue
\* always find room in the buffer.
C26_QueueBound ==
    /\ Len(offsetChan) + Cardinality(HoldingWorkers) <= numWorkers
    /\ Cardinality({w \in Workers : wpc[w] = "fetch"}) <= numWorkers
    /\ numWorkers <= OffsetChanCap =>
          /\ fpc = "seed" => Len(offsetChan) < OffsetChanCap
          /\ \A w \in Workers :
                (wpc[w] = "next" /\ Len(wres[w]) = pageLimit) =>
                    /\ Len(offsetChan) <= numWorkers - 1
                    /\ Len(offsetChan) < OffsetChanCap
                    /\ ENABLED WorkerNext(w)

\* C26 witness: a worker is about to re-enqueue while every other stripe's
\* offset is on the queue or in a worker's hands.
C26_Witness ==
    /\ numWorkers >= 2
    /\ Len(offsetChan) + Cardinality(HoldingWorkers) = numWorkers
    /\ Len(offsetChan) >= 1
    /\ \E w \in Workers : wpc[w] = "next" /\ Len(wres[w]) = pageLimit

\* The offsets whose page was fetched successfully and sent on resultChan.
Delivered ==
    {o \in Attempted :
        /\ ~fetchQuery(url, o, pageLimit).err
        /\ \A w \in Workers : woff[w] = o => wpc[w] = "next"}

\* The records in the pages at the offsets of S, counted.
RECURSIVE SumLen(_)
SumLen(S) ==
    IF S = {} THEN 0
    ELSE LET o == CHOOSE x \in S : TRUE
         IN  Len(Page(url, o, pageLimit)) + SumLen(S \ {o})

\* C27: collector exactness: the result slice is the concatenation, in
\* arrival order, of the pages sent so far: it holds their records and no
\* others, as many as the pages hold together, each page in one piece; it
\* changes only by the collector appending the page of a sending worker,
\* which then goes on; and a worker at its send is never stuck there: the
\* collector is running or about to, resultChan open.
C27_CollectorExact ==
    /\ [](/\ RecordsOf(results) =
                UNION {RecordsOf(Page(url, o, pageLimit)) : o \in Delivered}
          /\ Len(results) = SumLen(Delivered)
          /\ \A o \in Delivered :
                LET p == Page(url, o, pageLimit)
                IN  p # <<>> =>
                        \E a \in 1..Len(results) :
                            SubSeq(results, a, a + Len(p) - 1) = p
          /\ \A w \in Workers :
                wpc[w] = "send" =>
                    /\ fpc \in {"spawn", "closer", "collect"}
                    /\ ~resultClosed
                    /\ fpc = "collect" => ENABLED SendResult(w))
    /\ [][results' # results =>
            /\ fpc = "collect"
            /\ \E w \in Workers :
                  /\ wpc[w] = "send" /\ wpc'[w] = "next"
                  /\ results' = results \o wres[w]]_vars
    /\ [][\A w \in Workers :
            (wpc[w] = "send" /\ wpc'[w] # "send") =>
                (wpc'[w] = "next" /\ results' = results \o wres[w])]_vars

\* C27 witness: fetchAll has returned what three or more pages, an empty one
\* among them, delivered.
C27_Witness ==
    /\ fpc = "returned"
    /\ Cardinality(Delivered) >= 3
    /\ \E o \in Delivered : Page(url, o, pageLimit) = <<>>
    /\ Len(results) >= 2

\* C28: request count: an error-free call of N workers (N within the buffer
\* of offsetChan) against K records with page limit L has, when it returns,
\* issued exactly floor(K/L) + N page requests, each offset once; those that
\* returned no record are N when L divides K and N-1 otherwise.
C28_RequestCount ==
    (ErrorFree /\ fpc = "returned" /\ numWorkers <= OffsetChanCap) =>
        /\ \A x \in DOMAIN attempts : attempts[x] = 1
        /\ Cardinality(Attempted) = (dataLen[url] \div pageLimit) + numWorkers
        /\ Cardinality({o \in Attempted : Page(url, o, pageLimit) = <<>>})
              = (IF dataLen[url] % pageLimit = 0
                 THEN numWorkers ELSE numWorkers - 1)

\* C28 witness: a call of several workers has returned where L does not
\* divide K and some page was full.
C28_Witness ==
    /\ ErrorFree
    /\ fpc = "returned"
    /\ numWorkers >= 2
    /\ dataLen[url] % pageLimit # 0
    /\ dataLen[url] > pageLimit
    /\ Cardinality(Attempted) = (dataLen[url] \div pageLimit) + numWorkers

\* C29: missing credentials abort first: when CLIENT_ID or CLIENT_SECRET is
\* empty the run's first step returns an error: no auth exchange, no token,
\* no pool, no page request, no upload.
C29_MissingCredentialsAbort ==
    (~CredentialsSet /\ mainPc # "start") =>
        /\ mainPc = "returned"
        /\ runErr = "MissingCredentials"
        /\ authCalls = 0
        /\ accessToken = ""
        /\ ~FetchingBegun
        /\ \A f \in Files : upAttempts[f] = 0
        /\ DOMAIN uploaded = {}

\* C29 witness: a run with only one of the two credentials missing has
\* returned the error.
C29_Witness ==
    /\ (env.clientID = "") # (env.clientSecret = "")
    /\ mainPc = "returned"
    /\ runErr = "MissingCredentials"

\* An upload has been attempted, or the upload loop entered.
UploadBegun ==
    \/ mainPc = "upload"
    \/ \E f \in Files : upAttempts[f] > 0
    \/ DOMAIN uploaded # {}

\* C30: all-or-nothing upload phase: no upload is attempted before the
\* fetchAll call of the third and last kind has returned (each earlier kind's
\* call having returned before the next began); so when the run has come to
\* rest inside a fetchAll call nothing at all has been uploaded, the
\* collections of the kinds already completed included.
C30_UploadAllOrNothing ==
    /\ UploadBegun =>
          /\ kindIdx = Len(KindOrder)
          /\ url = KindOrder[Len(KindOrder)]
          /\ PoolDrained
          /\ mainPc \in {"upload", "returned"}
    /\ (mainPc = "fetching" /\ ~ENABLED RunStep) => ~UploadBegun

\* C30 witness: the run is at rest inside the fetchAll call of a later kind,
\* the genres collection complete with a record in it, nothing uploaded.
C30_Witness ==
    /\ mainPc = "fetching"
    /\ ~ENABLED RunStep
    /\ kindIdx >= 2
    /\ Len(collections["genres"]) >= 1
    /\ ~UploadBegun

\* The workers that have left the range loop (their deferred wg.Done has run).
ExitedWorkers == {w \in Workers : wpc[w] = "done"}

\* The offsets whose fetchQuery returned a partial page to its worker.
PartialPages == {o \in Attempted : PartialReturned(o)}

\* The workers holding a partial page that have not yet reached the return
\* after the length check (at the send on resultChan, or just past it).
PartialInHand ==
    {w \in Workers : /\ wpc[w] \in {"send", "next"}
                     /\ Len(wres[w]) < pageLimit}

\* Worker w leaves the range loop in this step.
Exits(w) == wpc[w] # "done" /\ wpc'[w] = "done"

\* Worker w's fetchQuery returns an error in this step.
FetchErrorReturns(w) ==
    /\ wpc[w] = "fetch"
    /\ wpc'[w] # "fetch"
    /\ fetchQuery(url, woff[w], pageLimit).err

====
